---- MODULE Spec2Model ----
(***************************************************************************)
(* Seat-booking lifecycle of the movie booking backend (bookings app).     *)
(*                                                                         *)
(* The database rows are the state: seats, bookings, transactions, the     *)
(* booking history, refunds, cancellation policies and the confirmation    *)
(* mails handed to the task queue.                                         *)
(* Every request handler, webhook and periodic task is one action; the     *)
(* booking-creation request is two steps (serializer validation, then the  *)
(* locked transaction) because the code runs them outside one lock.        *)
(* SpecRace takes the expiry task one statement at a time, with other      *)
(* requests and another run of the task in between; SpecRefund runs the    *)
(* refund task on Refund rows in status initiated.                         *)
(*                                                                         *)
(* Conventions                                                             *)
(*  - time is counted in minutes; NoTime is a NULL timestamp;              *)
(*  - money is counted in paise (1/100 rupee), the two decimal places of   *)
(*    the Decimal fields; a cancellation fee is counted in 1/100 paise,    *)
(*    because total * percentage / 100 is an exact Decimal with up to four *)
(*    decimal places;                                                      *)
(*  - a booking or transaction slot with status "none" is a row that does  *)
(*    not exist yet; rows are allocated in slot order;                     *)
(*  - the receivers of bookings/signals.py are connected (pre_save and     *)
(*    post_save of Booking, post_save of Transaction) and run inside the   *)
(*    save() that triggers them, in the order the file registers them;     *)
(*  - the database honours select_for_update (row locks) and a statement   *)
(*    sees what was committed before it started;                           *)
(*  - the gateway's answers (verify_payment, handle_webhook, create_order) *)
(*    are inputs: the model does not compute HMACs;                        *)
(*  - validate_seat_ids is read with models.Q meaning django.db.models.Q   *)
(*    (serializers.py uses the name without importing it);                 *)
(*  - the Django admin actions are not part of the model.                  *)
(***************************************************************************)
EXTENDS Integers, Sequences, FiniteSets, TLC

\* ------------------------------------------------------------------ bounds
MaxBookings == 2
MaxTxns == 2
MaxSteps == 5
MaxRuns == 2

\* --------------------------------------------------------- program constants
HoldMinutes == 15
ExtendMinutes == 10
RetryMinutes == 15
ReminderMinutes == 240
MaxRetries == 3
RetryCountdownSeconds == 300
ExtendThresholdSeconds == 120
TaxPercent == 18
MaxSeatsPerBooking == 10
ConvenienceFee == 2000

NoTime == -1

\* ------------------------------------------------------------ the catalogue
\* One screen (1) with seats 1 and 2; seat 3 belongs to screen 2.  Showtime 1
\* starts 255 minutes after time 0 and showtime 2 after 100 minutes, both on
\* screen 1.  The clock moves between the instants at which requests arrive.
Seats == {1, 2, 3}
AllShowtimes == {1, 2}
\* Two more showtimes of screen 1, for the checks a create request passes
\* first: one that is not active, and one that starts at minute 15.
InactiveShowtime == 3
EarlyShowtime == 4
ShowtimeRows == AllShowtimes \cup {InactiveShowtime, EarlyShowtime}
Instants == {13, 15, 16, 21}
BookingIds == 1..MaxBookings
Runs == 1..MaxRuns
TxnIds == 1..MaxTxns

SeatScreen(s) == IF s = 3 THEN 2 ELSE 1
ShowtimeScreen(st) == 1
ShowStart(st) == IF st = 1 THEN 255 ELSE IF st = EarlyShowtime THEN 15 ELSE 100
is_active(st) == st # InactiveShowtime

\* Seat.seat_type, and the three prices of a showtime in paise: showtime 1
\* charges 150.00 / 200.25 / 300.00 and showtime 2 charges 150.00 for
\* every type but the recliner.
seat_type(s) == IF s = 1 THEN "regular" ELSE IF s = 2 THEN "premium"
                ELSE "recliner"
base_price(st) == 15000
premium_price(st) == IF st = 1 THEN 20025 ELSE 15000
recliner_price(st) == 30000

\* Requested seat_ids: a list of one or two seat ids, possibly with a
\* duplicate (lists that differ only in order are the same request).
SeatIdLists == {<<a>> : a \in Seats} \cup
               {q \in {<<a, b>> : a \in Seats, b \in Seats} : q[1] <= q[2]}

\* A list with one id more than a request may carry, and the lists a client
\* can send when nothing stops it: the lists above, the empty list and the
\* long one.
TooManySeatIds == [i \in 1..(MaxSeatsPerBooking + 1) |-> 1 + (i % 2)]
RequestLists == SeatIdLists \cup {<<>>, TooManySeatIds}

\* Gateway names PaymentInitiateSerializer accepts (Transaction.GATEWAY_CHOICES)
\* and those PaymentGatewayFactory implements.  razorpay stands for the two
\* implemented gateways (razorpay, stripe: their answers are inputs here) and
\* paytm for the three choices without an implementation.
GatewayChoices == {"razorpay", "paytm"}
FactoryGateways == {"razorpay"}

\* CancellationPolicy rows: the table of the deployment, and the rows from
\* which other tables are drawn.
Policies == {
    [hours_before_show |-> 4, cancellation_fee_percentage |-> 10,
     is_refundable |-> TRUE, is_active |-> TRUE],
    [hours_before_show |-> 1, cancellation_fee_percentage |-> 0,
     is_refundable |-> TRUE, is_active |-> FALSE],
    [hours_before_show |-> 0, cancellation_fee_percentage |-> 100,
     is_refundable |-> FALSE, is_active |-> TRUE]}

PolicyRows == Policies \cup {
    [hours_before_show |-> 4, cancellation_fee_percentage |-> 25,
     is_refundable |-> TRUE, is_active |-> FALSE],
    [hours_before_show |-> 1, cancellation_fee_percentage |-> 50,
     is_refundable |-> TRUE, is_active |-> TRUE]}

\* The hours_before argument of a policy lookup, in minutes.
LookupMinutes == {-60, 0, 59, 60, 239, 240, 300}

Range(q) == {q[i] : i \in 1..Len(q)}

VARIABLES now, showtimes, is_available, is_blocked, booking, txn, history,
          confirmations, req, rivals, requested, showtime_lock,
          verified, steps, policies, lookup, refunds, reminders,
          timer_extensions, deadline_changes, signature, sweep, tasks,
          inflight

vars == <<now, showtimes, is_available, is_blocked, booking, txn, history,
          confirmations, req, rivals, requested, showtime_lock,
          verified, steps, policies, lookup, refunds, reminders,
          timer_extensions, deadline_changes, signature, sweep, tasks,
          inflight>>

NoBooking == [status |-> "none", showtime |-> 0, seats |-> {},
              subtotal |-> 0, tax_amount |-> 0, convenience_fee |-> 0,
              total_amount |-> 0,
              expires_at |-> NoTime, confirmed_at |-> NoTime,
              cancelled_at |-> NoTime]
NoTxn == [status |-> "none", booking |-> 0, gateway |-> "none"]
IdleReq == [pc |-> "idle", showtime |-> 0, seat_ids |-> <<>>, seen |-> {},
            response |-> "", named |-> {}]

\* CancellationPolicy.get_applicable_policy returning None, and the state in
\* which no lookup has been made.
NoPolicy == [hours_before_show |-> -1, cancellation_fee_percentage |-> 0,
             is_refundable |-> FALSE, is_active |-> FALSE]
NoLookup == [minutes |-> 0, policy |-> NoPolicy, made |-> FALSE]

\* A run of expire_pending_bookings that has not selected anything yet.
IdleRun == [queue |-> <<>>, instances |-> <<>>, expired |-> {}]

\* The rows every behaviour starts from: no booking, no transaction, no
\* refund, every seat available.
EmptyTables ==
    /\ now = 0
    /\ is_available = [s \in Seats |-> TRUE]
    /\ booking = [b \in BookingIds |-> NoBooking]
    /\ txn = [t \in TxnIds |-> NoTxn]
    /\ history = [b \in BookingIds |-> <<>>]
    /\ confirmations = [b \in BookingIds |-> 0]
    /\ rivals = [b \in BookingIds |-> {}]
    /\ requested = [b \in BookingIds |-> {}]
    /\ showtime_lock = [st \in ShowtimeRows |-> 0]
    /\ verified = 0
    /\ steps = 0
    /\ lookup = NoLookup
    /\ refunds = {}
    /\ timer_extensions = [b \in BookingIds |-> 0]
    /\ deadline_changes = [b \in BookingIds |-> 0]
    /\ signature = "none"
    /\ sweep = [w \in Runs |-> IdleRun]
    /\ tasks = {}
    /\ reminders = {}
    /\ inflight = [b \in BookingIds |-> NoBooking]

\* One client, one showtime, no blocked seat; the policy table is the
\* deployment's, or holds the four-hour policy alone.
Init ==
    /\ EmptyTables
    /\ showtimes = {1}
    /\ policies \in {Policies, {p \in Policies : p.hours_before_show = 4}}
    /\ is_blocked = [s \in Seats |-> FALSE]
    /\ req = [r \in {1} |-> IdleReq]

\* Two concurrent clients, two showtimes on the screen, seat 2 blocked or not.
InitCreate ==
    /\ EmptyTables
    /\ showtimes = AllShowtimes
    /\ policies = Policies
    /\ is_blocked \in {[s \in Seats |-> FALSE], [s \in Seats |-> s = 2]}
    /\ req = [r \in {1, 2} |-> IdleReq]

\* Any policy table, for the lookups of get_applicable_policy alone.
InitPolicy ==
    /\ EmptyTables
    /\ showtimes = AllShowtimes
    /\ policies \in SUBSET PolicyRows
    /\ is_blocked = [s \in Seats |-> FALSE]
    /\ req = [r \in {1} |-> IdleReq]

\* One client, every showtime row, any list of seat ids.
InitValidate ==
    /\ EmptyTables
    /\ showtimes = ShowtimeRows
    /\ policies = Policies
    /\ is_blocked = [s \in Seats |-> FALSE]
    /\ req = [r \in {1} |-> IdleReq]

\* One client, one showtime, the deployment's policy table.
InitSweep ==
    /\ EmptyTables
    /\ showtimes = {1}
    /\ policies = Policies
    /\ is_blocked = [s \in Seats |-> FALSE]
    /\ req = [r \in {1} |-> IdleReq]

\* verified is the transaction for which the gateway vouched in the step just
\* taken (verify_payment returned true, or a webhook's signature verified),
\* 0 when the step carried no such verification.  rivals[b] is the set of
\* bookings that other create requests wrote while the request that created b
\* was in flight, and requested[b] the seat ids that request asked for.
\* timer_extensions[b] counts the extend-timer calls that moved b's deadline
\* and deadline_changes[b] the steps after creation that left b with another
\* expires_at.  lookup is the last call of get_applicable_policy made on its
\* own, with its argument and its result.  signature is the outcome of the
\* signature comparison of the webhook answered in the step just taken.
\* reminders holds the send_show_reminders triggers scheduled, each with its
\* time and the booking whose save scheduled it, and inflight[b] the booking
\* instance a confirm-payment request for b has loaded and not yet saved.
\* sweep holds the runs of expire_pending_bookings that SpecRace takes step
\* by step and tasks the queued executions of process_refund.

\* steps counts the requests, webhooks, task runs and clock moves started; a
\* behaviour has at most MaxSteps of them.
Step == steps < MaxSteps /\ steps' = steps + 1

\* ------------------------------------------------------------- the database
\* The rows an operation reads and writes, as one value, so that save() and
\* its signal receivers can be written as functions from rows to rows.
DB == [booking |-> booking, txn |-> txn, history |-> history,
       is_available |-> is_available, confirmations |-> confirmations,
       refunds |-> refunds, reminders |-> reminders]

\* The variables a request that is refused leaves alone.
rows == <<booking, txn, history, is_available, confirmations, refunds,
          deadline_changes, reminders>>

Release(avail, S) == [s \in Seats |-> IF s \in S THEN TRUE ELSE avail[s]]

Held(status) == status \in {"pending", "confirmed"}

\* Booking.save() of an existing row with the three Booking receivers.
\*   pre_save  track_booking_status_change: compares with the stored status
\*   post_save create_booking_history: one entry when the status changed
\*   post_save handle_booking_confirmation: stamps a missing confirmed_at
\*             and then schedules send_show_reminders for four hours before
\*             the show, if that time is still to come
\*   post_save handle_booking_cancellation: releases the seats, stamps a
\*             missing cancelled_at
SaveBooking(db, b, inst) ==
    LET old == db.booking[b].status
        changed == old # inst.status
        stamped ==
            [inst EXCEPT
               !.confirmed_at = IF inst.status = "confirmed" /\ @ = NoTime
                                THEN now ELSE @,
               !.cancelled_at = IF inst.status = "cancelled" /\ @ = NoTime
                                THEN now ELSE @]
    IN  [db EXCEPT
           !.booking[b] = stamped,
           !.history[b] = IF changed THEN Append(@, <<old, inst.status>>)
                          ELSE @,
           !.is_available = IF inst.status = "cancelled"
                            THEN Release(@, inst.seats) ELSE @,
           !.reminders =
               IF /\ inst.status = "confirmed"
                  /\ inst.confirmed_at = NoTime
                  /\ ShowStart(inst.showtime) - ReminderMinutes > now
               THEN @ \cup {[booking |-> b,
                             eta |-> ShowStart(inst.showtime) - ReminderMinutes]}
               ELSE @]

\* ------------------------------------------------------- booking creation
\* BookingCreateSerializer.validate_seat_ids: every id is a seat of the
\* showtime's screen (a duplicated id makes the count differ from the
\* length), and no seat is unavailable, blocked or in a pending or
\* confirmed booking of the same showtime.
SeatsOnScreen(st, ids) == {s \in Range(ids) : SeatScreen(s) = ShowtimeScreen(st)}

UnavailableSeats(st, ids) ==
    {s \in SeatsOnScreen(st, ids) :
        \/ ~is_available[s]
        \/ is_blocked[s]
        \/ \E b \in BookingIds : /\ s \in booking[b].seats
                                 /\ booking[b].showtime = st
                                 /\ Held(booking[b].status)}

validate_seat_ids(st, ids) ==
    /\ Cardinality(SeatsOnScreen(st, ids)) = Len(ids)
    /\ UnavailableSeats(st, ids) = {}

\* create(): the count() that re-checks the request under the showtime's row
\* lock reads the seats of the screen that are available and not blocked.
CreateGranted(st, ids) ==
    Cardinality({s \in SeatsOnScreen(st, ids) :
                    is_available[s] /\ ~is_blocked[s]}) = Len(ids)

\* create(): the rows the locked query (SELECT ... FOR UPDATE) returns when
\* the queryset is iterated; the same filter, evaluated at that later moment.
LockedSeats(st, ids) ==
    {s \in SeatsOnScreen(st, ids) : is_available[s] /\ ~is_blocked[s]}

\* A price list that charges the base price for every seat.
base_price_for_seat(st, s) == base_price(st)

\* Showtime.get_price_for_seat
get_price_for_seat(st, s) ==
    IF seat_type(s) = "recliner" THEN recliner_price(st)
    ELSE IF seat_type(s) = "premium" THEN premium_price(st)
    ELSE base_price(st)

\* sum(showtime.get_price_for_seat(seat) for seat in seats)
RECURSIVE Subtotal(_, _)
Subtotal(st, S) ==
    IF S = {} THEN 0
    ELSE LET s == CHOOSE x \in S : TRUE
         IN get_price_for_seat(st, s) + Subtotal(st, S \ {s})

\* round(Decimal, 2) quantizes with ROUND_HALF_EVEN: n / d to the nearest
\* integer, a tie going to the even neighbour (n >= 0, d > 0).
RoundHalfEven(n, d) ==
    LET q == n \div d
        r == n % d
    IN IF 2 * r < d THEN q
       ELSE IF 2 * r > d THEN q + 1
       ELSE IF q % 2 = 0 THEN q ELSE q + 1

\* create(): the four amounts of a booking for the seats S.
Pricing(st, S) ==
    LET subtotal == Subtotal(st, S)
        tax_amount == RoundHalfEven(subtotal * TaxPercent, 100)
    IN [subtotal |-> subtotal, tax_amount |-> tax_amount,
        convenience_fee |-> ConvenienceFee,
        total_amount |-> subtotal + tax_amount + ConvenienceFee]

\* A create() that does not wait for the showtime's row lock.
ShowtimeLockIgnored(st) == TRUE

\* Showtime.objects.select_for_update().get(...) waits for the row lock.
ShowtimeLockFree(st) == showtime_lock[st] = 0

FreeBookingIds == {b \in BookingIds : booking[b].status = "none"}
NewBookingId == CHOOSE b \in FreeBookingIds : \A c \in FreeBookingIds : b <= c
InFlight == {r \in DOMAIN req : req[r].pc # "idle"}

Respond(r, response) == [req EXCEPT ![r] = [IdleReq EXCEPT !.response = response]]

\* validate_seat_ids raising "These seats are not available: ...": the
\* message lists unavailable_seats (named: the seats an error response
\* lists).
RespondNaming(r, response, S) ==
    [req EXCEPT ![r] = [IdleReq EXCEPT !.response = response, !.named = S]]

\* A seat_ids field that accepts a list of any length.
SeatCountAny(ids) == TRUE

\* seat_ids = ListField(min_length=1, max_length=10)
SeatCountAllowed(ids) == Len(ids) \in 1..MaxSeatsPerBooking

\* Step 1 of a create request: CreateBookingView.create up to is_valid(),
\* for showtime st and the list ids.  The view tests the showtime, then the
\* serializer its fields, then validate_seat_ids the seats.
\* A request is issued only while a booking row is left for it.
ValidateRequest(r, st, ids) ==
    /\ Step
    /\ req[r].pc = "idle"
    /\ Cardinality(FreeBookingIds) > Cardinality(InFlight)
    /\ req' = IF ~is_active(st)
                 THEN Respond(r, "not_active")
              ELSE IF ShowStart(st) <= now
                 THEN Respond(r, "past_showtime")
              ELSE IF ~SeatCountAllowed(ids)
                 THEN Respond(r, "seat_count")
              ELSE IF Cardinality(SeatsOnScreen(st, ids)) # Len(ids)
                 THEN Respond(r, "no_such_seats")
              ELSE IF ~validate_seat_ids(st, ids)
                 THEN RespondNaming(r, "not_available",
                                    UnavailableSeats(st, ids))
              ELSE [req EXCEPT ![r] = [pc |-> "validated", showtime |-> st,
                                       seat_ids |-> ids, seen |-> {},
                                       response |-> "", named |-> {}]]
    /\ verified' = 0
    /\ signature' = "none"
    /\ UNCHANGED <<sweep, tasks, inflight>>
    /\ lookup' = NoLookup
    /\ UNCHANGED <<now, showtimes, is_available, is_blocked, booking, txn,
                   history, confirmations, rivals, requested, showtime_lock,
                   policies, refunds, reminders, timer_extensions,
                   deadline_changes>>

\* A create request of a client that sends well-formed lists.
Validate(r) ==
    \E st \in showtimes, ids \in SeatIdLists : ValidateRequest(r, st, ids)

\* Step 2: create() takes the showtime's row lock and counts the seats that
\* are still free.  A short count raises ValidationError("Some seats are no
\* longer available"), a message that lists no seat: the transaction rolls
\* back and the lock is released.
CreateCheck(r) ==
    /\ req[r].pc = "validated"
    /\ ShowtimeLockFree(req[r].showtime)
    /\ IF CreateGranted(req[r].showtime, req[r].seat_ids)
       THEN /\ req' = [req EXCEPT ![r].pc = "locked"]
            /\ showtime_lock' = [showtime_lock EXCEPT ![req[r].showtime] = r]
       ELSE /\ req' = [req EXCEPT ![r].pc = "idle",
                                   ![r].response = "no_longer_available"]
            /\ UNCHANGED showtime_lock
    /\ verified' = 0
    /\ signature' = "none"
    /\ UNCHANGED <<sweep, tasks, inflight>>
    /\ lookup' = NoLookup
    /\ UNCHANGED <<now, showtimes, is_available, is_blocked, booking, txn,
                   history, confirmations, rivals, requested, steps,
                   policies, refunds, reminders, timer_extensions,
                   deadline_changes>>

\* Step 3: the locked query is evaluated (by the sum over the seats, which
\* caches its rows), the booking row is inserted with the amounts of those
\* seats and the seats themselves, those seats are marked unavailable, the
\* transaction commits, and the view appends its history entry.
\* Booking.objects.create fires post_save with created=True, so
\* create_booking_history has appended a first entry already.
CreateWrite(r) ==
    /\ req[r].pc = "locked"
    /\ LET st == req[r].showtime
           b == NewBookingId
           S == LockedSeats(st, req[r].seat_ids)
           amounts == Pricing(st, S)
       IN /\ booking' = [booking EXCEPT ![b] =
                [status |-> "pending", showtime |-> st, seats |-> S,
                 subtotal |-> amounts.subtotal,
                 tax_amount |-> amounts.tax_amount,
                 convenience_fee |-> amounts.convenience_fee,
                 total_amount |-> amounts.total_amount,
                 expires_at |-> now + HoldMinutes,
                 confirmed_at |-> NoTime, cancelled_at |-> NoTime]]
          /\ is_available' = [s \in Seats |->
                                IF s \in S THEN FALSE ELSE is_available[s]]
          /\ history' = [history EXCEPT ![b] =
                           <<(<<"", "pending">>), (<<"", "pending">>)>>]
          /\ rivals' = [rivals EXCEPT ![b] = req[r].seen]
          /\ requested' = [requested EXCEPT ![b] = Range(req[r].seat_ids)]
          /\ req' = [q \in DOMAIN req |->
                       IF q = r THEN [IdleReq EXCEPT !.response = "created"]
                       ELSE IF req[q].pc # "idle"
                            THEN [req[q] EXCEPT !.seen = @ \cup {b}]
                            ELSE req[q]]
          /\ showtime_lock' = [showtime_lock EXCEPT ![st] = 0]
    /\ verified' = 0
    /\ signature' = "none"
    /\ UNCHANGED <<sweep, tasks, inflight>>
    /\ lookup' = NoLookup
    /\ UNCHANGED <<now, showtimes, is_blocked, txn, confirmations, steps,
                   policies, refunds, reminders, timer_extensions,
                   deadline_changes>>

\* ------------------------------------------------------------ transactions
HasSuccess(db, b) ==
    \E u \in TxnIds : db.txn[u].booking = b /\ db.txn[u].status = "success"

\* Transaction.save() with the two Transaction receivers.  bk is the Booking
\* instance cached on the transaction (instance.booking); the result carries
\* the rows and that instance as the receivers left it.
\*   post_save handle_successful_payment: a success on a pending booking
\*             confirms it and queues the confirmation mail
\*   post_save handle_failed_payment: a failure with no successful
\*             transaction releases the seats and, before the deadline,
\*             restarts the hold
SaveTransaction(db, t, inst, bk) ==
    LET b == inst.booking
        db1 == [db EXCEPT !.txn[t] = inst]
        paid == inst.status = "success" /\ bk.status = "pending"
        bk2 == IF paid
               THEN [bk EXCEPT !.status = "confirmed", !.confirmed_at = now]
               ELSE bk
        db2 == IF paid
               THEN [SaveBooking(db1, b, bk2) EXCEPT !.confirmations[b] = @ + 1]
               ELSE db1
        unpaid == inst.status = "failed" /\ ~HasSuccess(db2, b)
        retry == unpaid /\ bk2.expires_at > now
        bk3 == IF retry THEN [bk2 EXCEPT !.expires_at = now + RetryMinutes]
               ELSE bk2
        db3 == IF unpaid
               THEN [db2 EXCEPT !.is_available = Release(@, bk2.seats)]
               ELSE db2
        db4 == IF retry THEN SaveBooking(db3, b, bk3) ELSE db3
    IN  [db |-> db4, bk |-> bk3]

Commit(db) ==
    /\ booking' = db.booking
    /\ txn' = db.txn
    /\ history' = db.history
    /\ is_available' = db.is_available
    /\ confirmations' = db.confirmations
    /\ refunds' = db.refunds
    /\ reminders' = db.reminders
    /\ deadline_changes' =
          [b \in BookingIds |->
             IF booking[b].status # "none"
                /\ db.booking[b].expires_at # booking[b].expires_at
             THEN deadline_changes[b] + 1 ELSE deadline_changes[b]]

Existing == {b \in BookingIds : booking[b].status # "none"}
FreeTxnIds == {t \in TxnIds : txn[t].status = "none"}
NewTxnId == CHOOSE t \in FreeTxnIds : \A u \in FreeTxnIds : t <= u

\* InitiatePaymentView.create
InitiatePayment(b, gateway, order_ok) ==
    /\ Step
    /\ b \in Existing
    /\ IF booking[b].status # "pending"
       THEN /\ verified' = 0
            /\ UNCHANGED rows
       ELSE IF booking[b].expires_at <= now
       THEN /\ LET db1 == SaveBooking(DB, b, [booking[b] EXCEPT !.status = "expired"])
               IN Commit([db1 EXCEPT !.is_available = Release(@, booking[b].seats)])
            /\ verified' = 0
       ELSE /\ FreeTxnIds # {}
            /\ LET t == NewTxnId
                   inst == [status |-> "initiated", booking |-> b,
                            gateway |-> gateway]
               IN /\ Commit(SaveTransaction(DB, t, inst, booking[b]).db)
                  /\ verified' = 0
    /\ signature' = "none"
    /\ UNCHANGED <<sweep, tasks, inflight>>
    /\ lookup' = NoLookup
    /\ UNCHANGED <<now, showtimes, is_blocked, req, rivals, requested,
                   showtime_lock, policies, timer_extensions>>

\* A confirm-payment that takes the success branch whatever the gateway says.
PaymentAcceptedAlways(is_valid) == TRUE

\* ConfirmPaymentView.update: the branch taken on the gateway's answer
\* (if is_valid).
PaymentAccepted(is_valid) == is_valid

\* A failed verification that leaves the transaction as it was.
FailedTransactionUnmarked(t) == txn[t]

\* ConfirmPaymentView.update, else branch: transaction_obj.status = 'failed'.
FailedTransaction(t) == [txn[t] EXCEPT !.status = "failed"]

\* ConfirmPaymentView.update.  A transaction that is not the booking's gives
\* 'Invalid transaction'; a gateway the factory does not implement raises
\* inside the try block; neither writes anything.
\* inst is the Booking instance the view loaded with get_object_or_404; the
\* transaction's own booking is fetched when the receiver asks for it.
ConfirmRows(b, t, is_valid, inst) ==
    IF PaymentAccepted(is_valid)
    THEN LET r == SaveTransaction(DB, t,
                     [txn[t] EXCEPT !.status = "success"], booking[b])
             view == [inst EXCEPT !.status = "confirmed",
                                  !.confirmed_at = now]
             db2 == SaveBooking(r.db, b, view)
         IN [db2 EXCEPT
               !.history[b] = Append(@, <<"pending", "confirmed">>),
               !.confirmations[b] = @ + 1]
    ELSE SaveTransaction(DB, t, FailedTransaction(t), booking[b]).db

ConfirmPayment(b, t, is_valid) ==
    /\ Step
    /\ b \in Existing
    /\ IF txn[t].status = "none" \/ txn[t].booking # b
          \/ txn[t].gateway \notin FactoryGateways
       THEN /\ verified' = 0
            /\ UNCHANGED rows
       ELSE /\ verified' = IF is_valid THEN t ELSE 0
            /\ Commit(ConfirmRows(b, t, is_valid, booking[b]))
    /\ signature' = "none"
    /\ UNCHANGED <<sweep, tasks, inflight>>
    /\ lookup' = NoLookup
    /\ UNCHANGED <<now, showtimes, is_blocked, req, rivals, requested,
                   showtime_lock, policies, timer_extensions>>

\* ConfirmPaymentView.update in two steps, for the requests that run beside
\* it: the view loads the booking (self.get_object(), no row lock), and
\* later runs the rest on the instance it loaded.  inflight[b] is that
\* instance, NoBooking when no confirm-payment for b is under way.
ConfirmRead(b) ==
    /\ Step
    /\ b \in Existing
    /\ inflight[b] = NoBooking
    /\ inflight' = [inflight EXCEPT ![b] = booking[b]]
    /\ verified' = 0
    /\ signature' = "none"
    /\ lookup' = NoLookup
    /\ UNCHANGED rows
    /\ UNCHANGED <<sweep, tasks>>
    /\ UNCHANGED <<now, showtimes, is_blocked, req, rivals, requested,
                   showtime_lock, policies, timer_extensions>>

ConfirmWrite(b, t, is_valid) ==
    /\ inflight[b] # NoBooking
    /\ inflight' = [inflight EXCEPT ![b] = NoBooking]
    /\ IF txn[t].status = "none" \/ txn[t].booking # b
          \/ txn[t].gateway \notin FactoryGateways
       THEN /\ verified' = 0
            /\ UNCHANGED rows
       ELSE /\ verified' = IF is_valid THEN t ELSE 0
            /\ Commit(ConfirmRows(b, t, is_valid, inflight[b]))
    /\ signature' = "none"
    /\ lookup' = NoLookup
    /\ UNCHANGED <<sweep, tasks, steps>>
    /\ UNCHANGED <<now, showtimes, is_blocked, req, rivals, requested,
                   showtime_lock, policies, timer_extensions>>

\* What the client sends as proof of payment (gateway_transaction_id and
\* gateway_response): the order it names, which is the reference_id the
\* gateway issued for one transaction (0: an order of no transaction),
\* whether its signature is the HMAC of order|payment under the key secret,
\* and whether the gateway reports that payment as captured.
Proofs == [order : {0} \cup TxnIds, signed : BOOLEAN, captured : BOOLEAN]

\* RazorpayGateway.verify_payment(gateway_transaction_id, gateway_response):
\* the signature matches and the fetched payment is captured.  The
\* transaction being confirmed is not among its arguments.
verify_payment(proof) == proof.signed /\ proof.captured

\* ConfirmPaymentView.update on the request's proof.
ConfirmRequest(b, t, proof) == ConfirmPayment(b, t, verify_payment(proof))

\* The events a gateway sends: a captured payment, a failed payment, and one
\* the handlers do not know.
WebhookEvents == {"payment.captured", "payment.failed", "order.paid"}

NoResult == [success |-> FALSE, status |-> "", transaction_id |-> 0]

\* A handler that reads the event without comparing the signature.
handle_webhook_unsigned(signature_ok, event, t) ==
    IF event = "payment.captured"
    THEN [success |-> TRUE, status |-> "success", transaction_id |-> t]
    ELSE IF event = "payment.failed"
    THEN [success |-> TRUE, status |-> "failed", transaction_id |-> t]
    ELSE NoResult

\* RazorpayGateway.handle_webhook / StripeGateway.handle_webhook.
\* signature_ok is the outcome of comparing the request's signature with the
\* HMAC of the payload under the webhook secret (compare_digest,
\* construct_event); t is the transaction id the event carries.
handle_webhook(signature_ok, event, t) ==
    IF ~signature_ok THEN NoResult
    ELSE IF event = "payment.captured"
    THEN [success |-> TRUE, status |-> "success", transaction_id |-> t]
    ELSE IF event = "payment.failed"
    THEN [success |-> TRUE, status |-> "failed", transaction_id |-> t]
    ELSE NoResult

\* What handle_webhook can return.
WebhookResults ==
    {handle_webhook(ok, e, t) : ok \in BOOLEAN, e \in WebhookEvents, t \in TxnIds}

\* payment_webhook, from the result of handle_webhook on.
PaymentWebhook(res) ==
    /\ Step
    /\ IF ~res.success \/ txn[res.transaction_id].status = "none"
       THEN /\ verified' = 0
            /\ UNCHANGED rows
       ELSE LET t == res.transaction_id
                b == txn[t].booking
                paid == res.status = "success"
                inst == [txn[t] EXCEPT !.status = res.status]
                bk == IF paid
                      THEN [booking[b] EXCEPT !.status = "confirmed",
                                              !.confirmed_at = now]
                      ELSE booking[b]
                db1 == IF paid
                       THEN [DB EXCEPT !.confirmations[b] = @ + 1]
                       ELSE [DB EXCEPT !.is_available = Release(@, booking[b].seats)]
                r == SaveTransaction(db1, t, inst, bk)
            IN /\ Commit(SaveBooking(r.db, b, r.bk))
               /\ verified' = t
    /\ UNCHANGED <<sweep, tasks, inflight>>
    /\ lookup' = NoLookup
    /\ UNCHANGED <<now, showtimes, is_blocked, req, rivals, requested,
                   showtime_lock, policies, timer_extensions>>

\* payment_webhook: a request with a signature that verifies or not, an event
\* and a transaction id.  signature is the outcome of the last step's
\* signature comparison, "none" when the step was not a webhook.
WebhookRequest(signature_ok, event, t) ==
    /\ PaymentWebhook(handle_webhook(signature_ok, event, t))
    /\ signature' = IF signature_ok THEN "valid" ELSE "invalid"

\* CancellationPolicy.get_applicable_policy, on the minutes left before the
\* show: the active policy with the greatest hours_before_show that is at
\* most the hours left; NoPolicy when there is none.
\* A lookup that forgets the is_active filter.
any_applicable_policy(minutes) ==
    LET cand == {p \in policies : p.hours_before_show * 60 <= minutes}
    IN IF cand = {} THEN NoPolicy
       ELSE CHOOSE p \in cand :
                \A q \in cand : q.hours_before_show <= p.hours_before_show

get_applicable_policy(minutes) ==
    LET cand == {p \in policies :
                   p.is_active /\ p.hours_before_show * 60 <= minutes}
    IN IF cand = {} THEN NoPolicy
       ELSE CHOOSE p \in cand :
                \A q \in cand : q.hours_before_show <= p.hours_before_show

\* The minutes left before the show of booking b starts (hours_before).
MinutesBefore(b) == ShowStart(booking[b].showtime) - now

\* A validation that lets a booking of any status be cancelled.
CancelAllowedAnyStatus(b) ==
    LET policy == get_applicable_policy(MinutesBefore(b))
    IN policy # NoPolicy /\ policy.is_refundable

\* BookingCancelSerializer.validate
CancelAllowed(b) ==
    /\ Held(booking[b].status)
    /\ LET policy == get_applicable_policy(MinutesBefore(b))
       IN policy # NoPolicy /\ policy.is_refundable

\* The policy lookup a cancel request makes: none when the status check has
\* already refused the request.
CancelLookup(b) ==
    IF Held(booking[b].status)
    THEN [minutes |-> MinutesBefore(b),
          policy |-> get_applicable_policy(MinutesBefore(b)), made |-> TRUE]
    ELSE NoLookup

\* CancelBookingView.update: the fee and the refund, in 1/100 paise
\* (total_amount * cancellation_fee_percentage / 100 with total_amount in
\* paise), and the Refund row made of them.
cancellation_fee_amount(total_amount, policy) ==
    total_amount * policy.cancellation_fee_percentage

refund_amount(total_amount, policy) ==
    total_amount * 100 - cancellation_fee_amount(total_amount, policy)

SuccessfulTransaction(db, b) ==
    CHOOSE t \in TxnIds : db.txn[t].booking = b /\ db.txn[t].status = "success"

NewRefund(db, b, policy) ==
    [booking |-> b, transaction |-> SuccessfulTransaction(db, b),
     amount |-> db.booking[b].total_amount,
     refund_amount |-> refund_amount(db.booking[b].total_amount, policy),
     cancellation_fee |->
         cancellation_fee_amount(db.booking[b].total_amount, policy),
     status |-> "initiated"]

\* A cancel that charges the fee to the booking's total.
CancelledInstanceCharged(bk, policy) ==
    [bk EXCEPT !.status = "cancelled", !.cancelled_at = now,
               !.total_amount = refund_amount(@, policy) \div 100]

\* CancelBookingView.update: the instance the view saves.
CancelledInstance(bk, policy) ==
    [bk EXCEPT !.status = "cancelled", !.cancelled_at = now]

\* CancelBookingView.update.  The refund branch tests booking.status ==
\* 'confirmed' after the status has been set to 'cancelled'; a Refund row
\* goes to process_refund as soon as it is created.
CancelBooking(b) ==
    /\ Step
    /\ b \in Existing
    /\ signature' = "none"
    /\ UNCHANGED <<sweep, tasks, inflight>>
    /\ lookup' = CancelLookup(b)
    /\ IF ~CancelAllowed(b)
       THEN /\ verified' = 0
            /\ UNCHANGED rows
       ELSE /\ LET policy == get_applicable_policy(MinutesBefore(b))
                   previous_status == booking[b].status
                   inst == CancelledInstance(booking[b], policy)
                   db1 == SaveBooking(DB, b, inst)
                   db2 == [db1 EXCEPT
                             !.is_available = Release(@, inst.seats),
                             !.history[b] =
                                 Append(@, <<previous_status, "cancelled">>)]
                   paid == inst.status = "confirmed" /\ HasSuccess(db2, b)
               IN Commit([db2 EXCEPT
                            !.refunds = IF paid
                                        THEN @ \cup {NewRefund(db2, b, policy)}
                                        ELSE @])
            /\ verified' = 0
    /\ UNCHANGED <<now, showtimes, is_blocked, req, rivals, requested,
                   showtime_lock, policies, timer_extensions>>

\* The test for a booking that is about to expire (time_remaining > 120
\* refuses), dropped.
CloseToExpiryAlways(b) == TRUE

\* extend_booking_timer: time_remaining is at most 120 seconds.
CloseToExpiry(b) ==
    (booking[b].expires_at - now) * 60 <= ExtendThresholdSeconds

\* extend_booking_timer.  The booking is a fresh instance in every request,
\* so hasattr(booking, '_timer_extended') is false.
TimerExtended(b) == FALSE

\* get_object_or_404 with status='pending' answers 404 for a booking in any
\* other status.
ExtendTimer(b) ==
    /\ Step
    /\ b \in Existing
    /\ IF booking[b].status # "pending" \/ TimerExtended(b)
          \/ ~CloseToExpiry(b)
       THEN /\ UNCHANGED rows
            /\ UNCHANGED timer_extensions
       ELSE /\ Commit(SaveBooking(DB, b, [booking[b] EXCEPT
                                   !.expires_at = now + ExtendMinutes]))
            /\ timer_extensions' = [timer_extensions EXCEPT ![b] = @ + 1]
    /\ verified' = 0
    /\ signature' = "none"
    /\ UNCHANGED <<sweep, tasks, inflight>>
    /\ lookup' = NoLookup
    /\ UNCHANGED <<now, showtimes, is_blocked, req, rivals, requested,
                   showtime_lock, policies>>

\* A query that tests the deadline the wrong way round.
TimedOutReversed == {b \in BookingIds : booking[b].status = "pending"
                                        /\ booking[b].expires_at > now}

\* expire_pending_bookings: the bookings the query selects, then the loop.
TimedOut == {b \in BookingIds : booking[b].status = "pending"
                                /\ booking[b].expires_at < now}

RECURSIVE ExpireEach(_, _)
ExpireEach(db, S) ==
    IF S = {} THEN db
    ELSE LET b == CHOOSE x \in S : \A y \in S : x <= y
             db1 == SaveBooking(db, b, [db.booking[b] EXCEPT !.status = "expired"])
             db2 == [db1 EXCEPT
                       !.is_available = Release(@, db.booking[b].seats),
                       !.history[b] = Append(@, <<"pending", "expired">>)]
         IN ExpireEach(db2, S \ {b})

\* One run of the task that finds something to expire.
expire_pending_bookings ==
    /\ TimedOut # {}
    /\ Commit(ExpireEach(DB, TimedOut))
    /\ verified' = 0
    /\ signature' = "none"
    /\ UNCHANGED <<sweep, tasks, inflight>>
    /\ lookup' = NoLookup
    /\ UNCHANGED <<now, showtimes, is_blocked, req, rivals, requested,
                   showtime_lock, policies, timer_extensions>>

\* A run counted among the steps of a behaviour.
ExpirePendingBookings == Step /\ expire_pending_bookings

\* A run of the periodic schedule, which goes on when the clients have
\* stopped.
SweeperRun == expire_pending_bookings /\ UNCHANGED steps

\* ------------------------------------------------- the sweeper, step by step
\* expire_pending_bookings as the worker executes it: the query loads the
\* selected bookings once, and the loop then saves one loaded instance at a
\* time, each save() committing on its own (the task opens no transaction and
\* takes no lock).  Other requests, and another run of the task, can commit
\* between two of its steps.  sweep[w].queue holds the bookings run w has
\* still to expire, sweep[w].instances the rows as the query returned them
\* and sweep[w].expired the bookings the run has written; a run is over when
\* its queue is empty.

\* Meta.ordering = ['-booked_at']: the booking created last comes first.
RECURSIVE NewestFirst(_)
NewestFirst(S) ==
    IF S = {} THEN <<>>
    ELSE LET b == CHOOSE x \in S : \A y \in S : x >= y
         IN <<b>> \o NewestFirst(S \ {b})

\* for booking in expired_bookings: the query is evaluated.
SweepQuery(w) ==
    /\ Step
    /\ sweep[w].queue = <<>>
    /\ TimedOut # {}
    /\ sweep' = [sweep EXCEPT ![w] =
                    [queue |-> NewestFirst(TimedOut),
                     instances |-> [b \in TimedOut |-> booking[b]],
                     expired |-> {}]]
    /\ verified' = 0
    /\ signature' = "none"
    /\ lookup' = NoLookup
    /\ UNCHANGED <<now, showtimes, is_available, is_blocked, booking, txn,
                   history, confirmations, req, rivals, requested,
                   showtime_lock, policies, refunds, reminders, timer_extensions,
                   deadline_changes, tasks, inflight>>

\* A run once the booking at the head of its queue is written.
Rest(run) ==
    [queue |-> Tail(run.queue),
     instances |-> IF Tail(run.queue) = <<>> THEN <<>> ELSE run.instances,
     expired |-> run.expired \cup {Head(run.queue)}]

\* The body of the loop for the next booking: status = 'expired' on the
\* loaded instance, save(), seats.update(is_available=True) and the history
\* entry.
SweepExpire(w) ==
    /\ sweep[w].queue # <<>>
    /\ LET b == Head(sweep[w].queue)
           inst == [sweep[w].instances[b] EXCEPT !.status = "expired"]
           db1 == SaveBooking(DB, b, inst)
       IN Commit([db1 EXCEPT
                    !.is_available = Release(@, inst.seats),
                    !.history[b] = Append(@, <<"pending", "expired">>)])
    /\ sweep' = [sweep EXCEPT ![w] = Rest(@)]
    /\ verified' = 0
    /\ signature' = "none"
    /\ lookup' = NoLookup
    /\ UNCHANGED <<now, showtimes, is_blocked, req, rivals, requested,
                   showtime_lock, steps, policies, timer_extensions, tasks,
                   inflight>>

\* The save() of the next booking raises: the except clause that encloses
\* the loop logs the error and the task returns.
SweepFail(w) ==
    /\ sweep[w].queue # <<>>
    /\ sweep' = [sweep EXCEPT ![w] = [IdleRun EXCEPT !.expired = sweep[w].expired]]
    /\ verified' = 0
    /\ signature' = "none"
    /\ lookup' = NoLookup
    /\ UNCHANGED <<now, showtimes, is_available, is_blocked, booking, txn,
                   history, confirmations, req, rivals, requested,
                   showtime_lock, steps, policies, refunds, reminders,
                   timer_extensions,
                   deadline_changes, tasks, inflight>>

\* ------------------------------------------------------------- the refund task
\* tasks holds the executions of process_refund that are queued: the Refund
\* row, named by its booking (a booking has at most one), the number of
\* retries that preceded the execution (self.request.retries) and the time
\* from which the worker may run it.

\* What an execution meets after it has saved status processing:
\*   "processed"       initiate_refund returns status processed
\*   "pending"         initiate_refund returns another status
\*   "gateway_error"   initiate_refund raises
\*   "record_error"    reading or saving the gateway's answer raises
\*   "connection_lost" the save of the answer raises and so do the queries of
\*                     the except clause, whose own try ... except: pass
\*                     swallows the second error
RefundOutcomes ==
    {"processed", "pending", "gateway_error", "record_error", "connection_lost"}

TheRefund(b) == CHOOSE r \in refunds : r.booking = b

\* PaymentGatewayFactory.get_gateway raises for a gateway it does not know.
RefundRaises(r, outcome) ==
    \/ txn[r.transaction].gateway \notin FactoryGateways
    \/ outcome \in {"gateway_error", "record_error", "connection_lost"}

\* The status the except clause leaves: failed when its save() goes through.
\* The row has been saved with status processing before the error.
StatusAfterError(r, outcome) ==
    IF outcome = "connection_lost"
       /\ txn[r.transaction].gateway \in FactoryGateways
    THEN "processing" ELSE "failed"

\* 2 ** n
RECURSIVE Pow2(_)
Pow2(n) == IF n = 0 THEN 1 ELSE 2 * Pow2(n - 1)

\* self.retry(countdown=300 * 2 ** retries): the execution is queued again,
\* to run when the countdown is over, while retries < max_retries.
Retry(task) ==
    IF task.retries < MaxRetries
    THEN {[refund |-> task.refund, retries |-> task.retries + 1,
           eta |-> now + (RetryCountdownSeconds * Pow2(task.retries)) \div 60]}
    ELSE {}

\* process_refund
ProcessRefund(task, outcome) ==
    /\ Step
    /\ task \in tasks
    /\ task.eta <= now
    /\ LET r == TheRefund(task.refund)
       IN IF r.status # "initiated"
          THEN /\ tasks' = tasks \ {task}
               /\ UNCHANGED refunds
          ELSE IF RefundRaises(r, outcome)
          THEN /\ refunds' = (refunds \ {r}) \cup
                      {[r EXCEPT !.status = StatusAfterError(r, outcome)]}
               /\ tasks' = (tasks \ {task}) \cup Retry(task)
          ELSE /\ refunds' = (refunds \ {r}) \cup
                      {[r EXCEPT !.status = IF outcome = "processed"
                                            THEN "completed" ELSE "processing"]}
               /\ tasks' = tasks \ {task}
    /\ verified' = 0
    /\ signature' = "none"
    /\ lookup' = NoLookup
    /\ UNCHANGED <<now, showtimes, is_available, is_blocked, booking, txn,
                   history, confirmations, req, rivals, requested,
                   showtime_lock, policies, timer_extensions,
                   deadline_changes, sweep, reminders, inflight>>

\* A booking of seat b for showtime 1 that was paid and then cancelled, all
\* at time 0, with the entries its creation, confirmation and cancellation
\* left in the history.
RefundedBooking(b) ==
    LET amounts == Pricing(1, {b})
    IN [status |-> "cancelled", showtime |-> 1, seats |-> {b},
        subtotal |-> amounts.subtotal, tax_amount |-> amounts.tax_amount,
        convenience_fee |-> amounts.convenience_fee,
        total_amount |-> amounts.total_amount,
        expires_at |-> HoldMinutes, confirmed_at |-> 0, cancelled_at |-> 0]
RefundedHistory ==
    <<(<<"", "pending">>), (<<"", "pending">>),
      (<<"pending", "confirmed">>), (<<"pending", "confirmed">>),
      (<<"confirmed", "cancelled">>), (<<"confirmed", "cancelled">>)>>

\* The bookings that have a transaction of their own.
Refunded == BookingIds \cap TxnIds

\* The state the refund branch of the cancel view is written to produce:
\* every booking paid through a gateway of any kind and cancelled under the
\* four-hour policy, a Refund row in status initiated for each, and
\* process_refund dispatched for each row.
InitRefund ==
    /\ now = 0
    /\ showtimes = {1}
    /\ policies = Policies
    /\ is_available = [s \in Seats |-> TRUE]
    /\ is_blocked = [s \in Seats |-> FALSE]
    /\ booking = [b \in BookingIds |->
                    IF b \in Refunded THEN RefundedBooking(b) ELSE NoBooking]
    /\ txn \in {f \in [TxnIds -> [status : {"success", "none"},
                                   booking : BookingIds \cup {0},
                                   gateway : GatewayChoices \cup {"none"}]] :
                   \A t \in TxnIds :
                      IF t \in Refunded
                      THEN f[t].status = "success" /\ f[t].booking = t
                           /\ f[t].gateway \in GatewayChoices
                      ELSE f[t] = NoTxn}
    /\ history = [b \in BookingIds |->
                    IF b \in Refunded THEN RefundedHistory ELSE <<>>]
    /\ confirmations = [b \in BookingIds |-> IF b \in Refunded THEN 2 ELSE 0]
    /\ req = [r \in {1} |-> IdleReq]
    /\ rivals = [b \in BookingIds |-> {}]
    /\ requested = [b \in BookingIds |-> IF b \in Refunded THEN {b} ELSE {}]
    /\ showtime_lock = [st \in ShowtimeRows |-> 0]
    /\ verified = 0
    /\ steps = 0
    /\ lookup = NoLookup
    /\ refunds = {NewRefund([booking |-> booking, txn |-> txn], b,
                            CHOOSE p \in Policies : p.hours_before_show = 4) :
                     b \in Refunded}
    /\ timer_extensions = [b \in BookingIds |-> 0]
    /\ deadline_changes = [b \in BookingIds |-> 0]
    /\ signature = "none"
    /\ sweep = [w \in Runs |-> IdleRun]
    /\ tasks = {[refund |-> b, retries |-> 0, eta |-> 0] : b \in Refunded}
    /\ reminders = {}
    /\ inflight = [b \in BookingIds |-> NoBooking]

\* get_applicable_policy called with a number of minutes.
LookupPolicy(minutes) ==
    /\ signature' = "none"
    /\ UNCHANGED <<sweep, tasks, inflight>>
    /\ lookup' = [minutes |-> minutes,
                  policy |-> get_applicable_policy(minutes), made |-> TRUE]
    /\ UNCHANGED <<now, showtimes, is_available, is_blocked, booking, txn,
                   history, confirmations, req, rivals, requested,
                   showtime_lock, verified, steps, policies, refunds, reminders,
                   timer_extensions, deadline_changes>>

Tick ==
    /\ Step
    /\ \E t \in Instants : t > now /\ now' = t
    /\ verified' = 0
    /\ signature' = "none"
    /\ UNCHANGED <<sweep, tasks, inflight>>
    /\ lookup' = NoLookup
    /\ UNCHANGED <<showtimes, is_available, is_blocked, booking, txn, history,
                   confirmations, req, rivals, requested, showtime_lock,
                   policies, refunds, reminders, timer_extensions,
                   deadline_changes>>

NextCreate ==
    \/ \E r \in DOMAIN req : Validate(r)
    \/ \E r \in DOMAIN req : CreateCheck(r)
    \/ \E r \in DOMAIN req : CreateWrite(r)

\* What the clients, the gateway and the clock do.
Requests ==
    \/ NextCreate
    \/ \E b \in BookingIds, g \in GatewayChoices, ok \in BOOLEAN :
          InitiatePayment(b, g, ok)
    \/ \E b \in BookingIds, t \in TxnIds, v \in BOOLEAN : ConfirmPayment(b, t, v)
    \/ \E ok \in BOOLEAN, e \in WebhookEvents, t \in TxnIds :
          WebhookRequest(ok, e, t)
    \/ \E b \in BookingIds : CancelBooking(b)
    \/ \E b \in BookingIds : ExtendTimer(b)
    \/ Tick

Next ==
    \/ Requests
    \/ ExpirePendingBookings

NextSweep ==
    \/ Requests
    \/ SweeperRun

\* The requests, with up to MaxRuns runs of the sweeper under way among them.
NextRace ==
    \/ Requests
    \/ \E w \in Runs : SweepQuery(w)
    \/ \E w \in Runs : SweepExpire(w)
    \/ \E w \in Runs : SweepFail(w)

NextRefund ==
    \/ \E task \in tasks, outcome \in RefundOutcomes :
          ProcessRefund(task, outcome)
    \/ Tick

\* Create requests of any shape, and the clock.
NextValidate ==
    \/ \E r \in DOMAIN req, st \in showtimes, ids \in RequestLists :
          ValidateRequest(r, st, ids)
    \/ \E r \in DOMAIN req : CreateCheck(r)
    \/ \E r \in DOMAIN req : CreateWrite(r)
    \/ Tick

\* Creation and payment, with confirm-payment taking the client's proof.
NextProof ==
    \/ NextCreate
    \/ \E b \in BookingIds, g \in GatewayChoices, ok \in BOOLEAN :
          InitiatePayment(b, g, ok)
    \/ \E b \in BookingIds, t \in TxnIds, proof \in Proofs :
          ConfirmRequest(b, t, proof)

\* Creation, payment and cancellation, with confirm-payment running beside
\* the other requests.
NextConfirm ==
    \/ NextCreate
    \/ \E b \in BookingIds, g \in GatewayChoices, ok \in BOOLEAN :
          InitiatePayment(b, g, ok)
    \/ \E b \in BookingIds : ConfirmRead(b)
    \/ \E b \in BookingIds, t \in TxnIds, v \in BOOLEAN : ConfirmWrite(b, t, v)
    \/ \E b \in BookingIds : CancelBooking(b)
    \/ Tick

NextPolicy == \E minutes \in LookupMinutes : LookupPolicy(minutes)

Spec == Init /\ [][Next]_vars
SpecCreate == InitCreate /\ [][NextCreate]_vars
SpecPolicy == InitPolicy /\ [][NextPolicy]_vars
SpecValidate == InitValidate /\ [][NextValidate]_vars

SpecProof == Init /\ [][NextProof]_vars
SpecConfirm == Init /\ [][NextConfirm]_vars
SpecRefund == InitRefund /\ [][NextRefund]_vars
SpecRace == InitSweep /\ [][NextRace]_vars

\* The periodic schedule keeps starting expire_pending_bookings.
SpecSweep == InitSweep /\ [][NextSweep]_vars /\ WF_vars(SweeperRun)

\* =================================================================== claims
Entries(h, status) == Cardinality({i \in 1..Len(h) : h[i][2] = status})
Holders(st, s) == {b \in BookingIds : /\ Held(booking[b].status)
                                      /\ booking[b].showtime = st
                                      /\ s \in booking[b].seats}
SuccessfulTxns(b) == {t \in TxnIds : txn[t].booking = b /\ txn[t].status = "success"}

\* C1: of two create requests for the same showtime that were in flight at
\* the same time and asked for overlapping seats, at most one wrote a
\* booking.
C1_OneWinner ==
    \A b \in BookingIds : \A c \in rivals[b] :
        booking[b].showtime = booking[c].showtime
            => requested[b] \cap requested[c] = {}

\* A request that passed validation was denied under the lock after a
\* concurrent request for the same showtime took one of its seats.
C1_Witness ==
    \E r \in DOMAIN req : \E b \in req[r].seen :
        /\ req[r].response = "no_longer_available"
        /\ booking[b].showtime = req[r].showtime
        /\ requested[b] \cap Range(req[r].seat_ids) # {}

\* C2: each (showtime, seat) pair is held by at most one pending or confirmed
\* booking.
C2_SingleHolder ==
    \A st \in AllShowtimes, s \in Seats : Cardinality(Holders(st, s)) <= 1

\* C3: a create attempt for the seats S either writes a booking that holds
\* all of S with every seat of S unavailable, or writes no booking and
\* changes no seat flag.
C3_AllOrNothing ==
    [][\A r \in DOMAIN req :
          (req[r].pc # "idle" /\ req'[r].pc = "idle") =>
             LET S == Range(req[r].seat_ids)
             IN \/ \E b \in BookingIds :
                      /\ booking[b].status = "none"
                      /\ booking'[b].status = "pending"
                      /\ booking'[b].seats = S
                      /\ \A s \in S : ~is_available'[s]
                \/ booking' = booking /\ is_available' = is_available]_vars

\* C4: cancelled, expired and failed are final, and a confirmed booking can
\* only become cancelled.
C4_TerminalFinal ==
    [][\A b \in BookingIds :
          /\ booking[b].status \in {"cancelled", "expired", "failed"}
                => booking'[b].status = booking[b].status
          /\ booking[b].status = "confirmed"
                => booking'[b].status \in {"confirmed", "cancelled"}]_vars

\* C5: a pending booking whose deadline has been reached (now >= expires_at)
\* is not confirmed, gets no transaction and gets no new deadline.
C5_ReadTimeDeadline ==
    [][\A b \in BookingIds :
          (booking[b].status = "pending" /\ now >= booking[b].expires_at) =>
             /\ booking'[b].status # "confirmed"
             /\ \A t \in TxnIds : txn'[t].booking = b => txn[t].booking = b
             /\ booking'[b].expires_at = booking[b].expires_at]_vars

\* C6: a booking becomes confirmed only in a step in which the gateway
\* verified a payment for one of that booking's transactions.
C6_ConfirmedOnlyWhenVerified ==
    [][\A b \in BookingIds :
          (booking[b].status # "confirmed" /\ booking'[b].status = "confirmed")
             => (verified' # 0 /\ txn'[verified'].booking = b)]_vars

\* A confirmed booking next to a transaction whose verification failed.
C6_Witness ==
    /\ verified # 0
    /\ booking[txn[verified].booking].status = "confirmed"
    /\ \E t \in TxnIds : txn[t].status = "failed"

\* C7: a booking has at most one transaction with status success.
C7_OneSuccess ==
    \A b \in BookingIds : Cardinality(SuccessfulTxns(b)) <= 1

\* C8: confirm-payment called again with a transaction that is already
\* verified leaves the booking confirmed with exactly one history entry whose
\* new status is confirmed.
C8_ConfirmIdempotent ==
    [][\A b \in BookingIds, t \in TxnIds :
          (txn[t].status = "success" /\ txn[t].booking = b
             /\ ConfirmPayment(b, t, TRUE))
          => /\ booking'[b].status = "confirmed"
             /\ Entries(history'[b], "confirmed") = 1]_vars

\* C9: a success webhook for a transaction that is already success leaves the
\* booking's status, confirmed_at and seats as they were and queues no
\* further confirmation.
C9_WebhookReplay ==
    [][\A t \in TxnIds :
          (txn[t].status = "success"
             /\ PaymentWebhook([success |-> TRUE, status |-> "success",
                                transaction_id |-> t]))
          => LET b == txn[t].booking
             IN /\ booking'[b] = booking[b]
                /\ is_available' = is_available
                /\ confirmations'[b] = confirmations[b]]_vars

\* C10: after a successful cancel every seat of the booking is available and
\* the history has exactly one entry whose new status is cancelled.
C10_CancelRoundTrip ==
    [][\A b \in BookingIds :
          (b \in Existing /\ CancelAllowed(b) /\ CancelBooking(b))
          => /\ \A s \in booking[b].seats : is_available'[s]
             /\ Entries(history'[b], "cancelled") = 1]_vars

\* C11: a cancel of a booking that has a successful transaction creates a
\* Refund for that transaction and hands it to process_refund; a cancel of a
\* booking without one creates no Refund.
C11_RefundOnCancel ==
    [][\A b \in BookingIds :
          (b \in Existing /\ CancelAllowed(b) /\ CancelBooking(b))
          => LET new == refunds' \ refunds
             IN IF SuccessfulTxns(b) # {}
                THEN \E r \in new : /\ r.booking = b
                                     /\ r.transaction \in SuccessfulTxns(b)
                                     /\ r.status = "initiated"
                ELSE new = {}]_vars

\* The refusals the cancel contract names: a status other than pending or
\* confirmed, no active policy for the time left, or an applicable policy
\* that is not refundable.
C12_Refused(b) ==
    LET A == {p \in policies : p.is_active
                 /\ p.hours_before_show * 60 <= ShowStart(booking[b].showtime) - now}
    IN \/ booking[b].status \notin {"pending", "confirmed"}
       \/ A = {}
       \/ \E p \in A : /\ \A q \in A : q.hours_before_show <= p.hours_before_show
                        /\ ~p.is_refundable

\* C12: a cancel that the contract refuses leaves the booking (status,
\* cancelled_at), the seats, the history and the refunds as they were.
C12_CancelRefused ==
    [][\A b \in BookingIds :
          (b \in Existing /\ C12_Refused(b) /\ CancelBooking(b))
          => /\ booking' = booking
             /\ is_available' = is_available
             /\ history' = history
             /\ refunds' = refunds]_vars

\* A cancel of a held booking was refused less than four hours before the
\* show, the only policy asking for four.
C12_Witness ==
    /\ lookup.made
    /\ lookup.policy = NoPolicy
    /\ lookup.minutes < 240
    /\ \A p \in policies : p.hours_before_show = 4
    /\ \E b \in BookingIds : Held(booking[b].status) /\ MinutesBefore(b) = lookup.minutes

C14_RefundAmounts ==
    [][\A b \in BookingIds :
          (b \in Existing /\ CancelAllowed(b) /\ SuccessfulTxns(b) # {}
             /\ CancelBooking(b))
          => LET T == booking[b].total_amount
                 p == get_applicable_policy(MinutesBefore(b)).cancellation_fee_percentage
             IN \E r \in refunds' :
                   /\ r.booking = b
                   /\ r.amount = T
                   /\ r.cancellation_fee = T * p
                   /\ r.refund_amount + r.cancellation_fee = T * 100
                   /\ 0 <= r.refund_amount /\ r.refund_amount <= T * 100]_vars

\* The price of a seat by its type, and the sum over a set of seats.
C15_Price(st, s) ==
    CASE seat_type(s) = "recliner" -> recliner_price(st)
      [] seat_type(s) = "premium" -> premium_price(st)
      [] OTHER -> base_price(st)

RECURSIVE C15_Sum(_, _)
C15_Sum(st, S) ==
    IF S = {} THEN 0
    ELSE LET s == CHOOSE x \in S : TRUE
         IN C15_Price(st, s) + C15_Sum(st, S \ {s})

\* C15: a created booking has subtotal = the sum of the showtime's prices of
\* its seats, tax_amount = 18% of the subtotal to the nearest paisa,
\* convenience_fee = 20.00 and total_amount = their sum.
C15_Amounts ==
    \A b \in BookingIds :
        booking[b].status # "none" =>
            LET bk == booking[b]
                d == 100 * bk.tax_amount - 18 * bk.subtotal
            IN /\ bk.subtotal = C15_Sum(bk.showtime, bk.seats)
               /\ -50 <= d /\ d <= 50
               /\ bk.convenience_fee = 2000
               /\ bk.total_amount = bk.subtotal + bk.tax_amount + bk.convenience_fee

\* Two seats at 150.00: 300.00 / 54.00 / 20.00 / 374.00.
C15_Witness ==
    \E b \in BookingIds :
        /\ booking[b].status = "pending"
        /\ Cardinality(booking[b].seats) = 2
        /\ booking[b].subtotal = 30000
        /\ booking[b].tax_amount = 5400
        /\ booking[b].convenience_fee = 2000
        /\ booking[b].total_amount = 37400

\* C16: the four amounts of a booking never change after its creation.
C16_AmountsFrozen ==
    [][\A b \in BookingIds :
          booking[b].status # "none" =>
             /\ booking'[b].subtotal = booking[b].subtotal
             /\ booking'[b].tax_amount = booking[b].tax_amount
             /\ booking'[b].convenience_fee = booking[b].convenience_fee
             /\ booking'[b].total_amount = booking[b].total_amount]_vars

\* A paid booking was cancelled under a policy with a fee and still has the
\* total of its creation.
C16_Witness ==
    \E b \in BookingIds :
        /\ booking[b].status = "cancelled"
        /\ SuccessfulTxns(b) # {}
        /\ booking[b].seats # {}
        /\ booking[b].total_amount = booking[b].subtotal + booking[b].tax_amount + 2000
        /\ \E p \in policies : p.is_refundable /\ p.cancellation_fee_percentage > 0

\* C17: extend-timer succeeds at most once for a booking.
C17_ExtendOnce ==
    \A b \in BookingIds : timer_extensions[b] <= 1

\* C18: extend-timer leaves expires_at alone when more than 120 seconds
\* remain, leaves a booking that is not pending alone, and when it succeeds
\* sets expires_at to the time of the call plus 10 minutes.
C18_ExtendRules ==
    [][\A b \in BookingIds :
          (b \in Existing /\ ExtendTimer(b)) =>
             /\ (booking[b].status = "pending"
                   /\ (booking[b].expires_at - now) * 60 > 120)
                    => booking'[b].expires_at = booking[b].expires_at
             /\ booking[b].status # "pending" => booking'[b] = booking[b]
             /\ (timer_extensions'[b] # timer_extensions[b]
                   \/ booking'[b].expires_at # booking[b].expires_at)
                    => booking'[b].expires_at = now + 10]_vars

\* An extension granted exactly 120 seconds before the deadline.
C18_Witness ==
    \E b \in BookingIds :
        /\ booking[b].status = "pending"
        /\ timer_extensions[b] = 1
        /\ deadline_changes[b] = 1
        /\ booking[b].expires_at = now + 10
        /\ now = 13

\* C19: expires_at changes at most once after creation, extend-timer and
\* failed payments counted together.
C19_OneDeadlineChange ==
    \A b \in BookingIds : deadline_changes[b] <= 1

\* What the sweeper leaves of a booking: status expired, every seat
\* available, an expired entry in the history.
C20_Swept(b) ==
    /\ booking[b].status = "expired"
    /\ \A s \in booking[b].seats : is_available[s]
    /\ Entries(history[b], "expired") >= 1

C21_ExpiredOnlyBySweeper ==
    [][\A b \in BookingIds :
          (booking[b].status # "expired" /\ booking'[b].status = "expired")
              => /\ ExpirePendingBookings
                 /\ booking[b].status = "pending"
                 /\ now > booking[b].expires_at]_vars

\* C25: a confirm-payment whose proof the gateway rejects marks the named
\* transaction failed and leaves a pending booking pending, so that another
\* transaction can still confirm the booking before its deadline.
C25_FailedVerification ==
    [][\A b \in BookingIds, t \in TxnIds :
          (/\ ConfirmPayment(b, t, FALSE)
           /\ txn[t].booking = b
           /\ txn[t].gateway \in FactoryGateways
           /\ booking[b].status = "pending")
              => /\ txn'[t].status = "failed"
                 /\ booking'[b].status = "pending"]_vars

\* A booking whose first transaction failed verification was confirmed by a
\* second one, within the deadline.
C25_Witness ==
    \E b \in BookingIds, t, u \in TxnIds :
        /\ txn[t].booking = b /\ txn[t].status = "failed"
        /\ txn[u].booking = b /\ txn[u].status = "success"
        /\ verified = u
        /\ booking[b].status = "confirmed"
        /\ now < booking[b].expires_at

\* C26: a failed verification in confirm-payment, or a failed-payment webhook,
\* on a transaction of a booking that has another transaction in status
\* success, leaves the availability of the booking's seats as it was.
C26_FailureKeepsPaidSeats ==
    [][\A t, u \in TxnIds :
          LET b == txn[t].booking
          IN (/\ \/ ConfirmPayment(b, t, FALSE)
                 \/ WebhookRequest(TRUE, "payment.failed", t)
              /\ txn[t].status # "none"
              /\ txn[t].gateway \in FactoryGateways
              /\ u # t
              /\ txn[u].booking = b
              /\ txn[u].status = "success")
                 => \A s \in booking[b].seats :
                       is_available'[s] = is_available[s]]_vars

\* C28: a webhook whose signature does not verify changes no transaction, no
\* booking, no seat's availability and no history, and queues no
\* confirmation mail.
C28_UnsignedWebhookIgnored ==
    [][\A e \in WebhookEvents, t \in TxnIds :
          WebhookRequest(FALSE, e, t)
              => UNCHANGED <<txn, booking, is_available, history,
                             confirmations, refunds>>]_vars

\* A webhook with a bad signature has just been answered while a pending
\* booking had a transaction waiting for its payment.
C28_Witness ==
    /\ signature = "invalid"
    /\ \E t \in TxnIds :
          /\ txn[t].status = "initiated"
          /\ booking[txn[t].booking].status = "pending"

\* C27: the history entries of a booking, in the order they were appended,
\* form a chain: the first is the creation entry with new_status pending,
\* each later entry's previous_status is the new_status of the entry before
\* it, no two consecutive entries record the same transition, and the last
\* entry's new_status is the booking's status.
C27_HistoryChain ==
    \A b \in BookingIds :
        booking[b].status # "none" =>
            LET h == history[b]
            IN /\ Len(h) >= 1
               /\ h[1][2] = "pending"
               /\ \A i \in 2..Len(h) : h[i][1] = h[i - 1][2] /\ h[i] # h[i - 1]
               /\ h[Len(h)][2] = booking[b].status

\* C22: when the booking the sweeper is about to expire is no longer pending
\* (a confirm-payment, a webhook or a cancel committed after the sweeper's
\* query), the sweeper's write leaves the booking and every seat as they are.
C22_SweeperSkipsSettled ==
    [][\A w \in Runs :
          (/\ SweepExpire(w)
           /\ booking[Head(sweep[w].queue)].status \in {"confirmed", "cancelled"})
              => /\ booking'[Head(sweep[w].queue)] = booking[Head(sweep[w].queue)]
                 /\ is_available' = is_available]_vars

\* C23: of two runs of the sweeper that selected the same booking, the one
\* that writes second finds the booking expired by the other and adds no
\* history entry and releases no seat.
C23_OverlappingRuns ==
    [][\A w, v \in Runs :
          (/\ SweepExpire(w)
           /\ v # w
           /\ Head(sweep[w].queue) \in sweep[v].expired
           /\ booking[Head(sweep[w].queue)].status = "expired")
              => /\ history' = history
                 /\ is_available' = is_available]_vars

\* C24: when expiring one booking fails, the bookings the run selected and
\* has not reached yet, if still pending, are expired by the time the run
\* ends, and their seats are available.
C24_FailureIsolated ==
    [][\A w \in Runs :
          SweepFail(w)
              => \A b \in Range(Tail(sweep[w].queue)) :
                    booking[b].status = "pending"
                        => /\ booking'[b].status = "expired"
                           /\ \A s \in booking[b].seats : is_available'[s]]_vars

\* C29: an execution of process_refund that meets an error (the gateway is
\* not known, the refund call raises, or recording the answer raises) leaves
\* the Refund in status failed, never in status processing.
C29_ErrorLeavesFailed ==
    [][\A task \in tasks, outcome \in RefundOutcomes :
          (/\ ProcessRefund(task, outcome)
           /\ TheRefund(task.refund).status = "initiated"
           /\ RefundRaises(TheRefund(task.refund), outcome))
              => \E r \in refunds' :
                    r.booking = task.refund /\ r.status = "failed"]_vars

\* C30: when the refund call of one execution raised and the gateway would
\* answer on a retry within the bound, the retry leaves the Refund completed,
\* or processing when the gateway has not settled the refund yet.
C30_RetryCompletes ==
    [][\A task \in tasks, outcome \in {"processed", "pending"} :
          (/\ ProcessRefund(task, outcome)
           /\ task.retries \in 1..MaxRetries
           /\ txn[TheRefund(task.refund).transaction].gateway \in FactoryGateways)
              => \E r \in refunds' :
                    /\ r.booking = task.refund
                    /\ r.status = IF outcome = "processed"
                                  THEN "completed" ELSE "processing"]_vars

\* C31: a create request for a showtime that is not active or does not
\* start strictly in the future, or with a number of seat ids outside 1..10,
\* or with an id that is not a seat of the showtime's screen, is refused at
\* once: no booking, no history entry, no change of a seat's flags.
C31_CreateRejected ==
    [][\A r \in DOMAIN req, st \in ShowtimeRows, ids \in RequestLists :
          (/\ ValidateRequest(r, st, ids)
           /\ \/ ~is_active(st)
              \/ ShowStart(st) <= now
              \/ Len(ids) < 1
              \/ Len(ids) > 10
              \/ \E i \in 1..Len(ids) : SeatScreen(ids[i]) # ShowtimeScreen(st))
              => /\ req'[r].pc = "idle"
                 /\ req'[r].response # "created"
                 /\ UNCHANGED <<booking, history, is_available, is_blocked>>]_vars

\* A request for the showtime that starts at minute 15, made at minute 15,
\* has been refused, after a booking for another showtime was created.
C31_Witness ==
    /\ now = ShowStart(EarlyShowtime)
    /\ \E r \in DOMAIN req : req[r].response = "past_showtime"
    /\ \E b \in BookingIds : booking[b].status = "pending"

\* C32: a step that confirms a booking while four hours before the show is
\* still to come schedules a reminder trigger for that time; when that time
\* has passed it schedules nothing.
C32_ReminderScheduled ==
    [][\A b \in BookingIds :
          (booking[b].status # "confirmed" /\ booking'[b].status = "confirmed")
              => IF ShowStart(booking'[b].showtime) - 4 * 60 > now
                 THEN \E m \in reminders' \ reminders :
                         m.eta = ShowStart(booking'[b].showtime) - 4 * 60
                 ELSE reminders' = reminders]_vars

\* C33: a booking that is pending or expired has no transaction in status
\* success.
C33_UnpaidWhilePendingOrExpired ==
    \A b \in BookingIds :
        booking[b].status \in {"pending", "expired"} => SuccessfulTxns(b) = {}


\* C36: in every reachable state every seat of a confirmed booking is marked
\* unavailable (is_available = FALSE), also when the booking was confirmed
\* by a retry after a failed payment attempt had released its seats.
C36_ConfirmedSeatsUnavailable ==
    \A b \in BookingIds :
        booking[b].status = "confirmed"
            => \A s \in booking[b].seats : ~is_available[s]

\* C37: a transaction that has reached status success never changes to
\* failed, and the step that names it (a confirm-payment whose verification
\* is false, a failed-payment webhook) does not release the seats of its
\* confirmed booking.
C37_SuccessIsFinal ==
    [][\A t \in TxnIds :
          txn[t].status = "success"
              => /\ txn'[t].status # "failed"
                 /\ booking[txn[t].booking].status = "confirmed"
                       => \A s \in booking[txn[t].booking].seats :
                             ~is_available[s] => ~is_available'[s]]_vars

\* C39: an initiate-payment for a pending booking within its deadline that
\* fails, because the factory has no implementation of the chosen gateway or
\* because create_order raises, leaves no Transaction behind and leaves the
\* booking's status, expires_at and seats as they were.
C39_FailedInitiateLeavesNoTrace ==
    [][\A b \in BookingIds, g \in GatewayChoices, ok \in BOOLEAN :
          (/\ InitiatePayment(b, g, ok)
           /\ booking[b].status = "pending"
           /\ booking[b].expires_at > now
           /\ (g \notin FactoryGateways \/ ~ok))
              => /\ txn' = txn
                 /\ booking' = booking
                 /\ is_available' = is_available]_vars


\* C35: a create request that is refused because requested seats are
\* unavailable gets an error that names exactly the conflicting seats (the
\* requested seats that are unavailable, blocked or held for the showtime),
\* whether the conflict is found by the validation or under the row lock.
C35_ErrorNamesConflicts ==
    [][\A r \in DOMAIN req :
          /\ \A st \in showtimes, ids \in SeatIdLists :
                (ValidateRequest(r, st, ids)
                    /\ req'[r].response = "not_available")
                   => req'[r].named =
                         {s \in Range(ids) :
                             \/ ~is_available[s]
                             \/ is_blocked[s]
                             \/ \E b \in BookingIds :
                                   /\ s \in booking[b].seats
                                   /\ booking[b].showtime = st
                                   /\ Held(booking[b].status)}
          /\ (CreateCheck(r) /\ req'[r].response = "no_longer_available")
                => req'[r].named =
                      {s \in Range(req[r].seat_ids) :
                          ~is_available[s] \/ is_blocked[s]}]_vars


\* C40: seat holds are per showtime: a well-formed create request for an
\* active, future showtime st, whose seats are on st's screen, not blocked,
\* and held by no pending or confirmed booking for st, passes the validation
\* even while a pending or confirmed booking for another showtime holds one
\* of those seats.
C40_HoldsPerShowtime ==
    [][\A r \in DOMAIN req, st \in showtimes, ids \in SeatIdLists :
          (/\ ValidateRequest(r, st, ids)
           /\ is_active(st)
           /\ ShowStart(st) > now
           /\ Len(ids) \in 1..10
           /\ Cardinality(Range(ids)) = Len(ids)
           /\ \A s \in Range(ids) :
                 /\ SeatScreen(s) = ShowtimeScreen(st)
                 /\ ~is_blocked[s]
                 /\ ~\E b \in BookingIds : /\ s \in booking[b].seats
                                           /\ booking[b].showtime = st
                                           /\ Held(booking[b].status)
                 /\ ~is_available[s]
                       => \E a \in BookingIds : /\ s \in booking[a].seats
                                                /\ booking[a].showtime # st
                                                /\ Held(booking[a].status))
              => req'[r].pc = "validated"]_vars


\* C38: a proof of payment that verifies but names the gateway order of a
\* transaction of another booking does not confirm booking b: confirm-payment
\* for transaction t of b with such a proof leaves b unconfirmed and t not
\* successful.
C38_ProofBoundToTransaction ==
    [][\A b \in BookingIds, t \in TxnIds, proof \in Proofs :
          (/\ ConfirmRequest(b, t, proof)
           /\ txn[t].booking = b
           /\ txn[t].status = "initiated"
           /\ booking[b].status = "pending"
           /\ proof.order \in TxnIds
           /\ txn[proof.order].status # "none"
           /\ txn[proof.order].booking # b)
              => /\ booking'[b].status # "confirmed"
                 /\ txn'[t].status # "success"]_vars


\* C34: status transitions of one booking are linearized: when a cancel
\* commits between the read and the write of a confirm-payment for the same
\* pending booking, the confirm-payment leaves the booking as one of the two
\* serial orders would (as the whole confirm-payment run after the cancel, or
\* cancelled), and never confirmed with a seat released.
C34_Linearized ==
    [][\A b \in BookingIds, t \in TxnIds :
          (/\ ConfirmWrite(b, t, TRUE)
           /\ inflight[b].status = "pending"
           /\ booking[b].status = "cancelled"
           /\ txn[t].booking = b
           /\ txn[t].gateway \in FactoryGateways)
              => /\ \/ booking'[b] = ConfirmRows(b, t, TRUE, booking[b]).booking[b]
                    \/ booking'[b].status = "cancelled"
                 /\ ~(/\ booking'[b].status = "confirmed"
                      /\ \E s \in booking'[b].seats : is_available'[s])]_vars
====
